---- MODULE Spec2Model ----
(***************************************************************************)
(* Model of src/shader-loader.js: the ShaderLoader loading screen.  One    *)
(* loader on one host page.  Handlers run to completion (single-threaded   *)
(* event loop), so every handler is one atomic action.  Time is the value  *)
(* of performance.now() - this.startTime in milliseconds; it only moves in *)
(* Advance and during the synchronous body of init().                      *)
(***************************************************************************)
EXTENDS Integers, Sequences, FiniteSets, TLC

\* ------------------------------------------------------------- bounds
MaxFrames == 2          \* executed render ticks explored
MaxResizes == 1         \* viewport changes explored
MaxExternalCalls == 1   \* external complete()/destroy() calls explored
MaxBackToBack == 2      \* destroy() calls one caller makes in a row
MaxSwitches == 3        \* switchTab() calls in a run of the Tabs widget
MaxShows == 2           \* show() calls in a run of the DecryptTooltip widget
MaxRequests == 3        \* rotation requests by the user in a run of the carousel
MaxCarouselFrames == 7  \* display refreshes in a run of the carousel

\* ------------------------------------------------- program constants
transitionStart == 5000
transitionDuration == 1500
fadePeriod == 16
logoDelay == 500

\* ------------------------------------------------------- input sets
\* window.innerWidth x window.innerHeight reported by the host
ViewportSizes == { <<1920, 1080>>, <<800, 600>>, <<0, 600>> }
InitialViewports == { <<1920, 1080>> }
\* time the synchronous body of init() takes (ms)
SetupTimes == { 0, 1600 }
\* how late the host fires the 5000 ms timeout (ms)
LateTimes == { 0, 1500 }
\* extra delay the host adds to every firing of the 16 ms interval: none,
\* or the throttling of a busy or backgrounded page
FadeSlacks == { 0, 484 }
\* render target whose framebuffer the driver reports incomplete when the
\* targets are first built (a zero-sized target is incomplete in any case)
BadTargets == { "none", "bufferA", "bufferB", "bufferAPrev" }
\* where init() throws an unexpected exception
ThrowPoints == { "none", "canvasEarly", "canvasLate", "webgl",
                 "targets", "compile", "geometry" }
\* outcome of compileProgram for bufferA, bufferB, image
CompileOutcomes == { <<"ok", "ok", "ok">>, <<"fs", "ok", "ok">>,
                     <<"ok", "link", "ok">>, <<"ok", "ok", "vs">> }

TargetNames == { "bufferA", "bufferB", "bufferAPrev" }
PassNames == { "bufferA", "bufferB", "image" }

\* inline style and scroll state of the host page before the loader starts
BlankPage ==
    [ bodyOverflow |-> "", bodyTouchAction |-> "", bodyPosition |-> "",
      bodyTop |-> "", bodyWidth |-> "", rootOverflow |-> "", scrollY |-> 0,
      loadingClass |-> FALSE ]
StyledPage ==
    [ bodyOverflow |-> "auto", bodyTouchAction |-> "pan-y",
      bodyPosition |-> "relative", bodyTop |-> "10px", bodyWidth |-> "80%",
      rootOverflow |-> "scroll", scrollY |-> 120, loadingClass |-> FALSE ]
PageStates == { BlankPage, StyledPage }

\* ------------------------------------------------------------ state
VARIABLES
    page,       \* host page: inline styles of body/root, scroll offset, class
    page0,      \* the host page as it was before the loader started
    listeners,  \* event listeners the loader has installed
    attached,   \* presentation elements attached to the document
    viewport,   \* <<window.innerWidth, window.innerHeight>>
    loader,     \* fields of the ShaderLoader object
    gpu,        \* WebGL objects: live handles, textures, framebuffers, ...
    timers,     \* pending timers: sets of deadlines (empty = not armed),
                \* and the slack the host adds to the interval
    rafPending, \* a requestAnimationFrame callback is scheduled
    now,        \* performance.now() - startTime
    obs,        \* observations: counters and instants the properties read
    tabs,       \* the Tabs widget of the page: buttons, panels, timeouts
    tooltip,    \* the DecryptTooltip widget: text, target, intervals
    carousel    \* the Carousel3D widget: rotation, flags, callbacks

\* the page's widgets; the loader never touches them
widgets == << tabs, tooltip, carousel >>
loaderVars == << page, page0, listeners, attached, viewport, loader, gpu,
                 timers, rafPending, now, obs >>
vars == << page, page0, listeners, attached, viewport, loader, gpu, timers,
           rafPending, now, obs, tabs, tooltip, carousel >>

Max(a, b) == IF a >= b THEN a ELSE b
Min(a, b) == IF a <= b THEN a ELSE b

\* ---------------------------------------------------------- host page
\* lockScroll(): saves only the scroll offset, then overwrites the styles.
\* A body with position: fixed cannot scroll, so the offset reads 0 after.
lockScroll(p) ==
    [ p EXCEPT !.bodyOverflow = "hidden",
               !.bodyTouchAction = "none",
               !.rootOverflow = "hidden",
               !.bodyPosition = "fixed",
               !.bodyTop = "-" \o ToString(p.scrollY) \o "px",
               !.bodyWidth = "100%",
               !.scrollY = 0 ]

\* unlockScroll(): clears the styles and scrolls back to the saved offset.
unlockScroll(p, savedY) ==
    [ p EXCEPT !.bodyOverflow = "",
               !.bodyTouchAction = "",
               !.rootOverflow = "",
               !.bodyPosition = "",
               !.bodyTop = "",
               !.bodyWidth = "",
               !.scrollY = IF savedY # 0 THEN savedY ELSE @ ]

ScrollListeners == { "touchmove", "wheel" }
ResizeListeners == { "resize", "orientationchange" }

\* ---------------------------------------------------------------- GPU
\* Handle 0 is null/undefined.  A texture's content is Blank (all zero) or
\* n >= 0: the output Pass A produced in the tick with frame index n.
Blank == 0 - 1
NoTargets == [ n \in TargetNames |-> 0 ]
NoPrograms == [ n \in PassNames |-> 0 ]

\* state of the WebGL context right after construction of the loader
gpuInit ==
    [ next |-> 1, live |-> {}, textures |-> NoTargets,
      framebuffers |-> NoTargets, programs |-> NoPrograms, buffer |-> 0,
      info |-> << >> ]

\* gl.create*(): a fresh handle described by rec
glCreate(g, rec) ==
    [ g EXCEPT !.next = @ + 1,
               !.live = @ \cup { g.next },
               !.info = (g.next :> rec) @@ @ ]

\* mutant of glDelete: nothing is released
glDeleteNothing(g, hs) == g

\* gl.delete*(h): a null or already deleted handle is ignored by WebGL
glDelete(g, hs) == [ g EXCEPT !.live = @ \ hs ]

\* mutant of createTexture: the storage is not initialised and shows what
\* the texture previously stored under the name held
createTextureStale(g, name, w, h) ==
    [ glCreate(g, [ kind |-> "texture", w |-> w, h |-> h,
                    content |-> IF g.textures[name] # 0
                                THEN g.info[g.textures[name]].content
                                ELSE Blank ])
        EXCEPT !.textures[name] = g.next ]

\* createTexture(name, w, h): a new texture filled with zero bytes
createTexture(g, name, w, h) ==
    [ glCreate(g, [ kind |-> "texture", w |-> w, h |-> h,
                    content |-> Blank ])
        EXCEPT !.textures[name] = g.next ]

\* createFramebuffer(texture): the status check only logs; the framebuffer
\* is returned whether complete or not.  A zero-sized attachment is never
\* complete; statusOk is what the driver reports otherwise.
createFramebuffer(g, name, statusOk) ==
    LET t == g.textures[name]
        complete == statusOk /\ g.info[t].w > 0 /\ g.info[t].h > 0
    IN  [ glCreate(g, [ kind |-> "framebuffer", tex |-> t,
                        complete |-> complete ])
            EXCEPT !.framebuffers[name] = g.next ]

\* mutant of ReducedSize: rounded to the nearest integer instead of floored
ReducedSizeRounded(w, h) == << Max(1, (w + 1) \div 3), Max(1, (h + 1) \div 3) >>

\* width and height of the reduced (bufferB) target for a w x h surface
ReducedSize(w, h) == << Max(1, w \div 3), Max(1, h \div 3) >>

\* createFramebuffers(): release the previous generation, then three
\* textures and three framebuffers for the current canvas size
createFramebuffers(g, w, h, bad) ==
    LET old == IF g.textures.bufferA # 0
               THEN { g.textures[n] : n \in TargetNames }
                      \cup { g.framebuffers[n] : n \in TargetNames }
               ELSE {}
        g0 == glDelete(g, old)
        g1 == createTexture(g0, "bufferA", w, h)
        g2 == createTexture(g1, "bufferB", ReducedSize(w, h)[1],
                            ReducedSize(w, h)[2])
        g3 == createTexture(g2, "bufferAPrev", w, h)
        g4 == createFramebuffer(g3, "bufferA", bad # "bufferA")
        g5 == createFramebuffer(g4, "bufferB", bad # "bufferB")
    IN  createFramebuffer(g5, "bufferAPrev", bad # "bufferAPrev")

\* createTexture() throwing after gl.createTexture(): the texture exists
\* but was never stored in this.textures
createTextureThrows(g) ==
    glCreate(g, [ kind |-> "texture", w |-> 0, h |-> 0, content |-> Blank ])

\* mutant of compileProgram: a program whose link failed is returned
compileProgramUnlinked(g, outcome) ==
    IF outcome \in { "vs", "fs" } THEN << g, 0 >>
    ELSE << glCreate(g, [ kind |-> "program", linked |-> outcome = "ok" ]),
            g.next >>

\* compileProgram(): <<context after, handle returned (0 for null)>>.
\* A vertex or fragment stage failure returns before gl.createProgram();
\* a link failure leaves the program object behind and returns null.
compileProgram(g, outcome) ==
    IF outcome \in { "vs", "fs" } THEN << g, 0 >>
    ELSE IF outcome = "link"
         THEN << glCreate(g, [ kind |-> "program", linked |-> FALSE ]), 0 >>
         ELSE << glCreate(g, [ kind |-> "program", linked |-> TRUE ]),
                 g.next >>

\* mutant of allCompiled: only the first pass is tested
allCompiledFirstOnly(a, b, i) == a # 0

\* the test compileShaders() makes before storing the programs
allCompiled(a, b, i) == a # 0 /\ b # 0 /\ i # 0

\* compileShaders(): all three passes are compiled, then stored only if
\* none is null; <<context after, return value>>
compileShaders(g, outcomes) ==
    LET ra == compileProgram(g, outcomes[1])
        rb == compileProgram(ra[1], outcomes[2])
        ri == compileProgram(rb[1], outcomes[3])
        ok == allCompiled(ra[2], rb[2], ri[2])
    IN  IF ok
        THEN << [ ri[1] EXCEPT !.programs =
                     [ bufferA |-> ra[2], bufferB |-> rb[2],
                       image |-> ri[2] ] ], TRUE >>
        ELSE << ri[1], FALSE >>

\* createGeometry(): the full-screen quad's vertex buffer
createGeometry(g) ==
    [ glCreate(g, [ kind |-> "buffer" ]) EXCEPT !.buffer = g.next ]

\* ------------------------------------------------------- presentation
\* Opacities are kept as numerators over OpacityDen, the length in ms of
\* the 60% stretch of the fade: 0.6 * transitionDuration.
OpacityDen == (transitionDuration * 6) \div 10
\* progress (in ms of fade, 0..transitionDuration) at which the logo starts
LogoFadeFrom == (transitionDuration * 4) \div 10

\* updateLogoPosition(): centre the logo in the viewport
updateLogoPosition(l, vp) ==
    IF ~l.logoOverlay THEN l
    ELSE LET offY == IF vp[1] <= 768 THEN (vp[2] * 4 + 50) \div 100 ELSE 0
         IN  [ l EXCEPT !.logoOffsetY = offY,
                        !.logoPos = vp,
                        !.logoTransform = [ by |-> "layout", fade |-> 0 ] ]

\* mutant of bgFade: the background fades over the whole transition
bgFadeWhole(n) == Min((n * 6) \div 10, OpacityDen)

\* bgFade = Math.min(progress / 0.6, 1), as a numerator over OpacityDen
bgFade(n) == Min(n, OpacityDen)

\* mutant of logoFade: the logo fades from the start of the transition
logoFadeWhole(n) == (n * 6) \div 10

\* logoFade = (progress - 0.4) / 0.6, as a numerator over OpacityDen
logoFade(n) == n - LogoFadeFrom

\* sign of glitchOffset = Math.sin(logoFade * Math.PI * 4) * logoFade * 10
\* for logoFade = f / OpacityDen: the sine has its zeros at the quarters
glitchSign(f) ==
    LET q == (4 * f) \div OpacityDen
    IN  IF (4 * f) % OpacityDen = 0 THEN 0
        ELSE IF q % 2 = 0 THEN 1 ELSE 0 - 1

\* handleTransition(progress): progress is n / transitionDuration
handleTransition(l, n) ==
    LET bg == [ l EXCEPT !.canvasOpacity = OpacityDen - bgFade(n) ]
    IN  IF n > LogoFadeFrom
        THEN [ bg EXCEPT !.logoOpacity = OpacityDen - logoFade(n),
                         !.logoBlur = 5 * logoFade(n),
                         !.logoTransform =
                             [ by |-> "fade", fade |-> logoFade(n) ] ]
        ELSE bg

\* ---------------------------------------------------------- the loader
\* constructor(): the fields of a new ShaderLoader.  isTransitioning is
\* read by handleResize() and assigned nowhere: it stays undefined (falsy).
loaderInit(cb) ==
    [ initCalled |-> FALSE, canvas |-> FALSE, width |-> 0, height |-> 0,
      logoOverlay |-> FALSE, gl |-> FALSE, isRunning |-> TRUE,
      hasError |-> FALSE, frameCount |-> 0, scrollY |-> 0,
      onComplete |-> cb, isTransitioning |-> FALSE, logoOffsetY |-> 0,
      logoPos |-> << 0, 0 >>, canvasOpacity |-> 0, logoOpacity |-> 0,
      logoBlur |-> 0, logoTransform |-> [ by |-> "css", fade |-> 0 ] ]

obsInit ==
    [ outcome |-> "new",       \* how init() ended
      badAtInit |-> "none",    \* target built with an incomplete framebuffer
      completeCalls |-> 0,     \* runs of complete()
      cbCalls |-> 0,           \* invocations of onComplete
      evtCount |-> 0,          \* dispatches of 'shaderLoaderComplete'
      destroyCalls |-> 0,      \* runs of destroy()
      extCalls |-> 0,          \* complete()/destroy() calls from outside
      resizes |-> 0,           \* viewport changes
      rafRequests |-> 0,       \* calls of requestAnimationFrame
      passes |-> 0,            \* draw calls issued by renderPass
      badDraws |-> 0,          \* draws/blits issued on an incomplete framebuffer
      rebuildsAfterError |-> 0,\* createFramebuffers() runs once hasError is set
      fadeStartedAt |-> Blank, \* instant startTransition() ran
      doneAt |-> Blank,        \* instant the fade timer first ran complete()
      lastProgress |-> Blank,  \* last progress applied (ms of fade)
      lastTick |-> << >>,      \* passes of the last executed tick
      lastCopy |-> << >>,      \* feedback copy of the last executed tick
      builtAtFrame |-> Blank,  \* frameCount when the targets were last built
      prevGen |-> {},          \* targets the loader held before the last rebuild
      stoppedAtFrame |-> Blank, \* frameCount when isRunning first became false
      noopTicks |-> 0,         \* refresh callbacks that returned at once
      logoShown |-> FALSE,     \* the 500 ms timeout has shown the logo
      progressOk |-> TRUE,     \* applied progress was in range and ordered
      fullApplied |-> 0,       \* applications of progress 1
      releasePasses |-> 0,     \* runs of destroy() that reached its gl.delete* calls
      loaders |-> 0,           \* ShaderLoader objects initShaderLoader() created
      lateResizes |-> 0,       \* resize notifications handled after complete()
      otherLoops |-> 0 ]       \* render loops started by loaders after the first

\* ---------------------------------------------------------- the widgets
\* The Tabs widget as the page's markup leaves it: the first button and the
\* first panel are active, the other panels are hidden, no timeout pending.
\* timeouts is the queue of pending setTimeout callbacks of switchTab(),
\* each with the two panels it captured and the ms left before it is due.
NumTabs == 3
TabNames == 1 .. NumTabs
tabsInit ==
    [ active |-> { 1 }, panelActive |-> { 1 },
      hidden |-> TabNames \ { 1 }, timeouts |-> << >>, switches |-> 0,
      hasty |-> FALSE ]

\* The DecryptTooltip after its constructor: an empty, invisible tooltip,
\* no active target, no interval running.
\* intervals is the list of running setInterval callbacks of decrypt() in
\* the order they were armed, each with the text and the iteration counter
\* of its closure (in halves), and the ms left before it fires
tooltipInit ==
    [ text |-> << >>, visible |-> FALSE, activeTarget |-> 0,
      position |-> 0, reducedMotion |-> FALSE, intervals |-> << >>,
      shows |-> 0, staleWrite |-> FALSE ]

\* The Carousel3D after its constructor and init(): rotation 0, not paused,
\* no transition, nothing queued (null is -1), the first
\* requestAnimationFrame(animate) pending.  Angles are in eighths of a
\* degree; clock is performance.now() in ms.  rafQueue holds the refresh
\* callbacks of the frame being run, rafNext those requested for the next
\* frame, timeouts the pending setTimeout(rotateTo) calls.
carouselInit ==
    [ currentRotation |-> 0, isPaused |-> FALSE, isTransitioning |-> FALSE,
      transitionQueue |-> 0 - 1, lastTime |-> 0, activeIndex |-> 0,
      reducedMotion |-> FALSE, clock |-> 1000,
      rafQueue |-> << >>, rafNext |-> << [ kind |-> "animate" ] >>,
      timeouts |-> << >>, hover |-> FALSE,
      frames |-> 0, requests |-> 0, lastRequested |-> 0 - 1,
      completedIndex |-> 0 - 1, movedInHover |-> FALSE ]

\* the loader before init() on an unstyled page: what the widgets' runs hold
\* the loader's variables at
LoaderIdle ==
    /\ page0 = BlankPage
    /\ page = BlankPage
    /\ listeners = {}
    /\ attached = {}
    /\ viewport = << 1920, 1080 >>
    /\ loader = loaderInit("null")
    /\ gpu = gpuInit
    /\ timers = [ logo |-> {}, delay |-> {}, fade |-> {}, slack |-> 0 ]
    /\ rafPending = FALSE
    /\ now = 0
    /\ obs = obsInit

Init ==
    /\ page0 \in PageStates
    /\ page = page0
    /\ listeners = {}
    /\ attached = {}
    /\ viewport \in InitialViewports
    /\ loader \in { loaderInit(cb) : cb \in { "null", "set" } }
    /\ gpu = gpuInit
    /\ timers \in { [ logo |-> {}, delay |-> {}, fade |-> {}, slack |-> k ] :
                       k \in FadeSlacks }
    /\ rafPending = FALSE
    /\ now = 0
    /\ obs = obsInit
    /\ tabs = tabsInit
    /\ tooltip = tooltipInit
    /\ carousel = carouselInit
    \* Exploration bound: a host page that already carries inline styles is
    \* followed with punctual timers only; late timers start from a blank page.
    /\ (timers.slack # 0 => page0 = BlankPage)

\* Exploration bound: viewport changes and calls from outside are explored
\* in the runs where the host throttles the interval; the runs with a
\* punctual interval explore the timers, the render loop and a driver that
\* reports a framebuffer incomplete.
HostBusy == timers.slack # 0

\* mutant of delayDeadline: the timeout is armed without its delay
delayDeadlineNoDelay(t, late) == t + late

\* setTimeout(() => this.startTransition(), this.transitionStart) called at
\* instant t: the instant the host fires it, late by what the host adds
delayDeadline(t, late) == t + transitionStart + late

\* how far init() gets before it throws
Stage(point) ==
    CASE point = "canvasEarly" -> 0
      [] point = "canvasLate" -> 1
      [] point = "webgl" -> 2
      [] point = "targets" -> 3
      [] point = "compile" -> 4
      [] point = "geometry" -> 5
      [] OTHER -> 6

\* init(): createCanvas, setupWebGL, createFramebuffers, compileShaders,
\* createGeometry, startRenderLoop and the 5000 ms timeout, or the fallback.
\* Nothing is awaited, so the whole body runs before any other handler.
init ==
    /\ UNCHANGED widgets
    /\ ~loader.initCalled
    /\ \E throwAt \in ThrowPoints, glAvail \in BOOLEAN, bad \in BadTargets,
          res \in CompileOutcomes, setup \in SetupTimes, late \in LateTimes :
        LET st == Stage(throwAt)
            \* createCanvas() got as far as assigning this.canvas
            canvasMade == st >= 1
            \* setupWebGL() returned true
            glGot == st >= 3 /\ glAvail
            w == viewport[1]
            h == viewport[2]
            g1 == IF ~glGot THEN gpu
                  ELSE IF st = 3 THEN createTextureThrows(gpu)
                  ELSE createFramebuffers(gpu, w, h, bad)
            cs == IF glGot /\ st >= 5 THEN compileShaders(g1, res)
                  ELSE << g1, FALSE >>
            compiled == cs[2]
            g3 == IF compiled /\ st >= 6 THEN createGeometry(cs[1]) ELSE cs[1]
            running == compiled /\ st >= 6
            \* what happened to init(), read off its inputs
            outcome == IF st = 0 THEN "aborted"
                       ELSE IF st <= 2 THEN "exception"
                       ELSE IF ~glAvail THEN "unavailable"
                       ELSE IF st <= 4 THEN "exception"
                       ELSE IF res # << "ok", "ok", "ok" >> THEN "compileError"
                       ELSE IF st = 5 THEN "exception"
                       ELSE "running"
            l1 == [ loader EXCEPT !.initCalled = TRUE,
                                  !.canvas = canvasMade,
                                  !.width = IF canvasMade THEN w ELSE @,
                                  !.height = IF canvasMade THEN h ELSE @,
                                  !.logoOverlay = canvasMade,
                                  !.scrollY = IF canvasMade THEN page.scrollY ELSE @,
                                  !.gl = glGot,
                                  !.hasError = ~running,
                                  !.canvasOpacity = IF canvasMade THEN OpacityDen ELSE 0 ]
        IN  /\ (bad = "none" \/ ~HostBusy)
            /\ loader' = IF st >= 2 THEN updateLogoPosition(l1, viewport) ELSE l1
            /\ gpu' = g3
            /\ page' = IF canvasMade
                       THEN [ lockScroll(page) EXCEPT !.loadingClass = TRUE ]
                       ELSE page
            /\ listeners' = IF canvasMade
                            THEN ScrollListeners \cup ResizeListeners ELSE {}
            /\ attached' = IF canvasMade THEN { "canvas", "logo" } ELSE {}
            /\ now' = now + setup
            /\ timers' = [ logo |-> IF st >= 2 THEN { logoDelay } ELSE {},
                           delay |-> IF canvasMade
                                     THEN { delayDeadline(now + setup, late) }
                                     ELSE {},
                           fade |-> {},
                           slack |-> timers.slack ]
            /\ rafPending' = running
            /\ obs' = [ obs EXCEPT !.outcome = outcome,
                                   !.badAtInit = IF glGot /\ st >= 4 THEN bad
                                                 ELSE "none",
                                   !.rafRequests = IF running THEN 1 ELSE 0,
                                   !.loaders = 1,
                                   !.builtAtFrame = IF glGot /\ st >= 4 THEN 0
                                                    ELSE @ ]
            /\ UNCHANGED << page0, viewport >>

\* --------------------------------------------------------- finalization
\* mutant of completeLoader: the loop is not stopped
completeLoaderKeepsRunning(l) == l

\* complete(), the part before the completion signals: stop the loop, drop
\* the class, unlock scrolling, remove the resize listeners and the elements
completePage(p, l) == [ unlockScroll(p, l.scrollY) EXCEPT !.loadingClass = FALSE ]
completeLoader(l) == [ l EXCEPT !.isRunning = FALSE ]
\* mutant of completeListeners: the resize listeners stay installed
completeListenersScrollOnly(ls) == ls \ ScrollListeners

completeListeners(ls) == ls \ (ScrollListeners \cup ResizeListeners)
completeAttached(a) == a \ { "canvas", "logo" }

\* complete(), the completion signals: the callback when one is set, then
\* the broadcast event.  cbOut is what the callback does; a throw leaves
\* complete() before the event is dispatched.
completeSignals(o, l, cbOut, t) ==
    [ o EXCEPT !.completeCalls = @ + 1,
               !.cbCalls = IF l.onComplete = "set" THEN @ + 1 ELSE @,
               !.evtCount = IF l.onComplete = "set" /\ cbOut = "throws"
                            THEN @ ELSE @ + 1,
               !.doneAt = IF t # Blank /\ @ = Blank THEN t ELSE @,
               !.stoppedAtFrame = IF l.isRunning THEN l.frameCount ELSE @ ]

\* destroy(): stop the loop, delete the stored programs, framebuffers,
\* textures and vertex buffer, remove the elements
destroyGpu(g, l) ==
    IF l.gl
    THEN glDelete(g, { g.programs[n] : n \in PassNames }
                       \cup { g.framebuffers[n] : n \in TargetNames }
                       \cup { g.textures[n] : n \in TargetNames }
                       \cup { g.buffer })
    ELSE g

\* a call of complete() from outside the loader (a manual stop)
ExternalComplete ==
    /\ UNCHANGED widgets
    /\ loader.initCalled
    /\ HostBusy
    /\ obs.extCalls < MaxExternalCalls
    /\ \E cbOut \in { "returns", "throws" } :
         obs' = [ completeSignals(obs, loader, cbOut, Blank)
                    EXCEPT !.extCalls = @ + 1 ]
    /\ page' = completePage(page, loader)
    /\ loader' = completeLoader(loader)
    /\ listeners' = completeListeners(listeners)
    /\ attached' = completeAttached(attached)
    /\ UNCHANGED << page0, viewport, gpu, timers, rafPending, now >>

\* the handles destroy() passes to gl.delete*: whatever this.programs,
\* this.framebuffers, this.textures and this.buffer hold
destroyHandles(g, l) ==
    IF l.gl
    THEN ({ g.programs[n] : n \in PassNames }
            \cup { g.framebuffers[n] : n \in TargetNames }
            \cup { g.textures[n] : n \in TargetNames }
            \cup { g.buffer }) \ { 0 }
    ELSE {}

\* destroy() calls a caller makes in a row: one before the transition has
\* finalized, one or more when it cleans up after it
BackToBack(o) == IF o.doneAt = Blank THEN { 1 } ELSE 1 .. MaxBackToBack

\* a caller outside the loader calls destroy(), once or several times in a
\* row; destroy() has no guard and clears no field, so every call passes
\* the same handles to gl.delete* again
ExternalDestroy ==
    /\ UNCHANGED widgets
    /\ loader.initCalled
    /\ HostBusy
    /\ obs.extCalls < MaxExternalCalls
    /\ loader' = [ loader EXCEPT !.isRunning = FALSE ]
    /\ gpu' = destroyGpu(gpu, loader)
    /\ attached' = completeAttached(attached)
    /\ \E calls \in BackToBack(obs) :
         obs' = [ obs EXCEPT
                    !.extCalls = @ + 1,
                    !.destroyCalls = @ + calls,
                    !.stoppedAtFrame = IF loader.isRunning
                                       THEN loader.frameCount ELSE @,
                    !.releasePasses = IF loader.gl THEN @ + calls ELSE @ ]
    /\ UNCHANGED << page, page0, listeners, viewport, timers, rafPending, now >>

\* the canvas and the logo overlay of the k-th loader of the page
CanvasOf(k) == IF k = 1 THEN "canvas" ELSE "canvas" \o ToString(k)
LogoOf(k) == IF k = 1 THEN "logo" ELSE "logo" \o ToString(k)

\* initShaderLoader() called again while a loader exists: it constructs a
\* new ShaderLoader and runs its init() whatever the state of the previous
\* one.  The new loader's createCanvas() adds its own canvas and logo and
\* locks scrolling again, and its init() starts its own render loop unless
\* it falls back.  The loader followed in `loader` stays the first one; of
\* the later ones only these effects on the page are kept.  The call is
\* explored in runs whose timers are punctual, apart from the interleavings
\* of Resize, complete() and destroy().
initShaderLoaderAgain ==
    /\ UNCHANGED widgets
    /\ loader.initCalled
    /\ ~HostBusy
    /\ obs.extCalls < MaxExternalCalls
    /\ page' = [ lockScroll(page) EXCEPT !.loadingClass = TRUE ]
    /\ attached' = attached \cup { CanvasOf(obs.loaders + 1),
                                   LogoOf(obs.loaders + 1) }
    /\ \E runs \in BOOLEAN :
         obs' = [ obs EXCEPT !.extCalls = @ + 1,
                             !.loaders = @ + 1,
                             !.otherLoops = IF runs THEN @ + 1 ELSE @ ]
    /\ UNCHANGED << page0, listeners, viewport, loader, gpu, timers,
                    rafPending, now >>

\* --------------------------------------------------------------- timers
Deadlines == timers.logo \cup timers.delay \cup timers.fade
Due(ds) == \E d \in ds : d <= now

\* time passes up to the next deadline; a due timer fires first
Advance ==
    /\ UNCHANGED widgets
    /\ Deadlines # {}
    /\ ~Due(Deadlines)
    /\ now' = CHOOSE d \in Deadlines : \A e \in Deadlines : d <= e
    /\ UNCHANGED << page, page0, listeners, attached, viewport, loader, gpu,
                    timers, rafPending, obs >>

\* the 500 ms timeout of createCanvas(): show the logo
LogoTimer ==
    /\ UNCHANGED widgets
    /\ Due(timers.logo)
    /\ timers' = [ timers EXCEPT !.logo = {} ]
    /\ loader' = [ loader EXCEPT !.logoOpacity = OpacityDen ]
    /\ obs' = [ obs EXCEPT !.logoShown = TRUE ]
    /\ UNCHANGED << page, page0, listeners, attached, viewport, gpu,
                    rafPending, now >>

\* the 5000 ms timeout: startTransition() arms the 16 ms interval
startTransition ==
    /\ UNCHANGED widgets
    /\ Due(timers.delay)
    /\ timers' = [ timers EXCEPT !.delay = {}, !.fade = { now + fadePeriod + timers.slack } ]
    /\ obs' = [ obs EXCEPT !.fadeStartedAt = now ]
    /\ UNCHANGED << page, page0, listeners, attached, viewport, loader, gpu,
                    rafPending, now >>

\* mutant of Progress: the value is not capped at 1
ProgressUncapped(elapsed) == elapsed - transitionStart

\* mutant of Progress: the fade is measured from the start of the loader
ProgressFromStart(elapsed) == Min(elapsed, transitionDuration)

\* mutant of Progress: the fade is measured in executed render ticks
ProgressByFrames(elapsed) ==
    Min(loader.frameCount * fadePeriod, transitionDuration)

\* elapsed - transitionStart, capped at transitionDuration: the numerator
\* of progress = Math.min((elapsed - transitionStart) / transitionDuration, 1)
Progress(elapsed) == Min(elapsed - transitionStart, transitionDuration)

\* the interval callback of startTransition()
FadeTimer ==
    /\ UNCHANGED widgets
    /\ Due(timers.fade)
    /\ LET n == Progress(now)
           l1 == IF n >= 0 THEN handleTransition(loader, n) ELSE loader
           o1 == IF n >= 0
                 THEN [ obs EXCEPT
                          !.lastProgress = n,
                          !.progressOk = @ /\ n <= transitionDuration
                                           /\ n >= obs.lastProgress,
                          !.fullApplied = IF n >= transitionDuration
                                          THEN @ + 1 ELSE @ ]
                 ELSE obs
       IN  IF n >= transitionDuration
           THEN /\ timers' = [ timers EXCEPT !.fade = {} ]
                /\ \E cbOut \in { "returns", "throws" } :
                     obs' = completeSignals(o1, l1, cbOut, now)
                /\ page' = completePage(page, l1)
                /\ loader' = completeLoader(l1)
                /\ listeners' = completeListeners(listeners)
                /\ attached' = completeAttached(attached)
           ELSE /\ timers' = [ timers EXCEPT !.fade = { d + fadePeriod + timers.slack : d \in @ } ]
                /\ obs' = o1
                /\ loader' = l1
                /\ UNCHANGED << page, listeners, attached >>
    /\ UNCHANGED << page0, viewport, gpu, rafPending, now >>

\* --------------------------------------------------------------- resize
\* the texture and framebuffer handles stored in this.textures and
\* this.framebuffers
Referenced(g) ==
    ({ g.textures[n] : n \in TargetNames }
       \cup { g.framebuffers[n] : n \in TargetNames }) \ { 0 }

\* handleResize(): vp is what window.innerWidth/innerHeight read now
resizeLoader(l, vp) ==
    IF ~l.canvas \/ l.isTransitioning THEN l
    ELSE IF l.width = vp[1] /\ l.height = vp[2] THEN l
    ELSE updateLogoPosition([ l EXCEPT !.width = vp[1], !.height = vp[2] ], vp)

\* mutant of resizeGpu: the previous targets are released and the
\* replacements are not built before control returns
resizeGpuHalf(g, l, vp) ==
    IF ~l.canvas \/ l.isTransitioning THEN g
    ELSE IF l.width = vp[1] /\ l.height = vp[2] THEN g
    ELSE IF l.gl THEN glDelete(g, Referenced(g))
    ELSE g

\* handleResize(), the part on the context: rebuild the targets
resizeGpu(g, l, vp) ==
    IF ~l.canvas \/ l.isTransitioning THEN g
    ELSE IF l.width = vp[1] /\ l.height = vp[2] THEN g
    ELSE IF l.gl THEN createFramebuffers(g, vp[1], vp[2], "none")
    ELSE g

\* the host viewport changes; the resize notification reaches
\* handleResize() while its listener is installed
Resize ==
    /\ UNCHANGED widgets
    /\ loader.initCalled
    /\ HostBusy
    /\ obs.resizes < MaxResizes
    /\ \E vp \in ViewportSizes \ { viewport } :
        /\ viewport' = vp
        /\ IF "resize" \in listeners
           THEN /\ loader' = resizeLoader(loader, vp)
                /\ gpu' = resizeGpu(gpu, loader, vp)
           ELSE UNCHANGED << loader, gpu >>
        /\ obs' = [ obs EXCEPT !.resizes = @ + 1,
                               !.rebuildsAfterError =
                                   IF "resize" \in listeners /\ loader.hasError
                                      /\ resizeGpu(gpu, loader, vp) # gpu
                                   THEN @ + 1 ELSE @,
                               !.builtAtFrame =
                                   IF "resize" \in listeners
                                      /\ resizeGpu(gpu, loader, vp) # gpu
                                   THEN loader.frameCount ELSE @,
                               !.prevGen =
                                   IF "resize" \in listeners
                                      /\ resizeGpu(gpu, loader, vp) # gpu
                                   THEN Referenced(gpu) ELSE @,
                               !.lateResizes =
                                   IF "resize" \in listeners
                                      /\ obs.completeCalls > 0
                                      /\ (resizeLoader(loader, vp) # loader
                                            \/ resizeGpu(gpu, loader, vp) # gpu)
                                   THEN @ + 1 ELSE @ ]
    /\ UNCHANGED << page, page0, listeners, attached, timers, rafPending, now >>

\* ---------------------------------------------------------- render loop
\* mutant of PassViewport: every pass gets the canvas size
PassViewportFull(g, l, outFB) == << l.width, l.height >>

\* the viewport renderPass() sets for an output framebuffer (0 = canvas)
PassViewport(g, l, outFB) ==
    IF outFB = 0 THEN << l.width, l.height >>
    ELSE IF outFB = g.framebuffers.bufferB THEN ReducedSize(l.width, l.height)
    ELSE << l.width, l.height >>

FbComplete(g, fb) == g.info[fb].complete

\* what a pass writes: Pass A generates the frame's content, the other
\* passes derive theirs from their first input
PassOutput(g, l, pass, inputs) ==
    IF pass = "bufferA" THEN l.frameCount ELSE g.info[inputs[1]].content

\* renderPass(programInfo, inputTextures, outputFB): the context after the
\* draw.  A draw on an incomplete framebuffer is rejected by WebGL.
renderPass(g, l, pass, inputs, outFB) ==
    IF g.programs[pass] = 0 THEN g
    ELSE IF outFB = 0 \/ ~FbComplete(g, outFB) THEN g
    ELSE [ g EXCEPT !.info[g.info[outFB].tex].content =
                        PassOutput(g, l, pass, inputs) ]

\* what one renderPass() call did, for the tick's log
PassRecord(g, l, pass, inputs, outFB) ==
    [ pass |-> pass,
      frame |-> l.frameCount,
      reads |-> [ i \in DOMAIN inputs |-> g.info[inputs[i]].content ],
      readsLive |-> \A i \in DOMAIN inputs : inputs[i] \in g.live,
      out |-> outFB,
      outLive |-> outFB = 0 \/ outFB \in g.live,
      outComplete |-> outFB = 0 \/ FbComplete(g, outFB),
      surface |-> << l.width, l.height >>,
      outSize |-> IF outFB = 0 THEN << l.width, l.height >>
                  ELSE << g.info[g.info[outFB].tex].w,
                          g.info[g.info[outFB].tex].h >>,
      viewport |-> PassViewport(g, l, outFB) ]

\* mutant of blitFeedback: no feedback copy
blitFeedbackSkipped(g) == g

\* gl.blitFramebuffer from bufferA's framebuffer to bufferAPrev's
blitFeedback(g) ==
    IF FbComplete(g, g.framebuffers.bufferA)
       /\ FbComplete(g, g.framebuffers.bufferAPrev)
    THEN [ g EXCEPT !.info[g.textures.bufferAPrev].content =
                        g.info[g.textures.bufferA].content ]
    ELSE g

\* what the feedback copy of one tick did, for the tick's log: g is the
\* context before the tick, gI the context after the three passes
CopyRecord(g, gI, o, l) ==
    [ frame |-> l.frameCount,
      fresh |-> l.frameCount = o.builtAtFrame,
      builtAt |-> o.builtAtFrame,
      complete |-> FbComplete(gI, gI.framebuffers.bufferA)
                   /\ FbComplete(gI, gI.framebuffers.bufferAPrev),
      after |-> << "bufferA", "bufferB", "image" >>,
      from |-> gI.framebuffers.bufferA,
      to |-> gI.framebuffers.bufferAPrev,
      live |-> { gI.framebuffers.bufferA, gI.framebuffers.bufferAPrev }
                  \subseteq gI.live,
      workingBefore |-> g.info[g.textures.bufferA].content,
      working |-> blitFeedback(gI).info[gI.textures.bufferA].content,
      history |-> blitFeedback(gI).info[gI.textures.bufferAPrev].content ]

\* mutant of nextFrame: the counter skips a value
nextFrameTwice(l) == [ l EXCEPT !.frameCount = @ + 2 ]

\* this.frameCount++
nextFrame(l) == [ l EXCEPT !.frameCount = @ + 1 ]

\* the requestAnimationFrame callback of startRenderLoop()
loop ==
    /\ UNCHANGED widgets
    /\ rafPending
    /\ IF ~loader.isRunning
       THEN /\ rafPending' = FALSE
            /\ obs' = [ obs EXCEPT !.noopTicks = @ + 1 ]
            /\ UNCHANGED << loader, gpu >>
       ELSE /\ loader.frameCount < MaxFrames
            /\ LET inA == << gpu.textures.bufferAPrev >>
                   fbA == gpu.framebuffers.bufferA
                   gA == renderPass(gpu, loader, "bufferA", inA, fbA)
                   inB == << gA.textures.bufferA >>
                   fbB == gA.framebuffers.bufferB
                   gB == renderPass(gA, loader, "bufferB", inB, fbB)
                   inI == << gB.textures.bufferB, gB.textures.bufferA >>
                   gI == renderPass(gB, loader, "image", inI, 0)
                   log == << PassRecord(gpu, loader, "bufferA", inA, fbA),
                             PassRecord(gA, loader, "bufferB", inB, fbB),
                             PassRecord(gB, loader, "image", inI, 0) >>
                   bad == Cardinality({ i \in 1..3 : ~log[i].outComplete })
                          + (IF blitFeedback(gI) = gI
                                /\ ~(FbComplete(gI, gI.framebuffers.bufferA)
                                     /\ FbComplete(gI, gI.framebuffers.bufferAPrev))
                             THEN 1 ELSE 0)
               IN  /\ gpu' = blitFeedback(gI)
                   /\ loader' = nextFrame(loader)
                   /\ obs' = [ obs EXCEPT !.passes = @ + 3,
                                          !.badDraws = @ + bad,
                                          !.rafRequests = @ + 1,
                                          !.lastTick = log,
                                          !.lastCopy =
                                              << CopyRecord(gpu, gI, obs, loader) >> ]
            /\ rafPending' = TRUE
    /\ UNCHANGED << page, page0, listeners, attached, viewport, timers, now >>

\* ------------------------------------------------------- specification
Next ==
    \/ init
    \/ Advance
    \/ LogoTimer
    \/ startTransition
    \/ FadeTimer
    \/ loop
    \/ Resize
    \/ ExternalComplete
    \/ ExternalDestroy
    \/ initShaderLoaderAgain

Spec == Init /\ [][Next]_vars

\* The timers are the host's: a due timer fires, and time passes.  Nothing
\* obliges the display to refresh or anyone to call in.  Viewport changes
\* touch no timer and are left out of the fair runs.
ClockNext ==
    \/ init
    \/ Advance
    \/ LogoTimer
    \/ startTransition
    \/ FadeTimer
    \/ loop
    \/ ExternalComplete
    \/ ExternalDestroy

FairSpec ==
    /\ Init
    /\ [][ClockNext]_vars
    /\ WF_vars(Advance)
    /\ WF_vars(LogoTimer)
    /\ WF_vars(startTransition)
    /\ WF_vars(FadeTimer)

\* ------------------------------------------------------------ properties
\* the instant progress reaches 1
FinalAt == transitionStart + transitionDuration

PageFields == { "bodyOverflow", "bodyTouchAction", "bodyPosition", "bodyTop",
                "bodyWidth", "rootOverflow", "scrollY" }

\* the scroll lock of lockScroll() is engaged
ScrollLocked ==
    /\ page.bodyOverflow = "hidden"
    /\ page.bodyPosition = "fixed"
    /\ page.rootOverflow = "hidden"
    /\ ScrollListeners \subseteq listeners

\* the scroll lock is released and the page is back at its scroll offset
ScrollUnlocked ==
    /\ page.bodyOverflow # "hidden"
    /\ page.bodyPosition # "fixed"
    /\ page.rootOverflow # "hidden"
    /\ page.bodyTouchAction # "none"
    /\ page.scrollY = page0.scrollY
    /\ ScrollListeners \cap listeners = {}

\* the host fires the interval on its 16 ms period, and Fading is entered
\* no later than the instant progress reaches 1
Punctual ==
    /\ timers.slack = 0
    /\ \A d \in timers.delay : d <= FinalAt
    /\ obs.fadeStartedAt <= FinalAt

GpuTargetsLive ==
    { h \in gpu.live : gpu.info[h].kind \in { "texture", "framebuffer" } }

\* C1: when complete() runs more than once on a loader (a manual stop, then
\* the fade timer reaching progress 1), onComplete is invoked exactly once.
C1_CompleteIdempotent ==
    (loader.onComplete = "set" /\ obs.completeCalls >= 1) => obs.cbCalls = 1

\* C2: with no outside call of complete() or destroy(), a run of init()
\* finalizes exactly once: onComplete (when set) is invoked once, the
\* 'shaderLoaderComplete' event is dispatched once, and the fade timer is
\* disarmed afterwards.
C2_ExactlyOneFinalization ==
    (obs.extCalls = 0 /\ obs.completeCalls >= 1) =>
        /\ obs.completeCalls = 1
        /\ obs.evtCount = 1
        /\ obs.cbCalls = (IF loader.onComplete = "set" THEN 1 ELSE 0)
        /\ timers.fade = {}
        /\ timers.delay = {}

\* C3: when the context is unavailable or a pass program fails to compile
\* or link, the fallback is engaged and the GPU pipeline never runs: no
\* pass is executed and no refresh callback is ever requested.
C3_FallbackExcludesPipeline ==
    obs.outcome \in { "unavailable", "compileError" } =>
        /\ loader.hasError
        /\ obs.passes = 0
        /\ obs.rafRequests = 0
        /\ ~rafPending

C3_Witness ==
    /\ obs.outcome = "compileError"
    /\ obs.resizes > 0
    /\ obs.doneAt # Blank

\* C4: once the fallback is engaged after a compile error, no render target
\* stays allocated and no later resize allocates or rebuilds render targets.
C4_NoPartialPipeline ==
    obs.outcome = "compileError" =>
        /\ loader.hasError
        /\ GpuTargetsLive = {}
        /\ obs.rebuildsAfterError = 0

\* C5: when a setup step of init() throws, the fallback is engaged and
\* init() ends with the transition scheduled (or already run): never with
\* neither the pipeline nor a transition.
C5_ExceptionStillFinalizes ==
    obs.outcome \in { "exception", "aborted" } =>
        /\ loader.hasError
        /\ (timers.delay # {} \/ timers.fade # {} \/ obs.doneAt # Blank)

\* C6: when the framebuffer of a required render target fails its
\* completeness check during initialization, the GPU path is aborted, the
\* fallback is engaged and no pass draws on an incomplete framebuffer.
C6_IncompleteFramebufferAborts ==
    obs.badAtInit # "none" =>
        /\ loader.hasError
        /\ obs.rafRequests = 0
        /\ obs.badDraws = 0

\* C7: fallback scenario (context unavailable, nobody calls in): finalization
\* runs at most once, never before 5000 + 1500 ms, and with a punctual
\* interval no later than one 16 ms period after that; the scroll lock is
\* engaged until then and released from then on.
C7_FallbackFinalizesOnTime ==
    (obs.outcome = "unavailable" /\ obs.extCalls = 0) =>
        /\ loader.hasError
        /\ obs.completeCalls <= 1
        /\ obs.completeCalls = 1 =>
              /\ obs.doneAt >= FinalAt
              /\ Punctual => obs.doneAt <= FinalAt + fadePeriod
              /\ ScrollUnlocked
        /\ obs.completeCalls = 0 =>
              /\ Punctual => now <= FinalAt + fadePeriod
              /\ ScrollLocked

C7_Witness ==
    /\ obs.outcome = "unavailable"
    /\ obs.extCalls = 0
    /\ Punctual
    /\ obs.completeCalls = 1
    /\ obs.doneAt \in FinalAt .. (FinalAt + fadePeriod)
    /\ page0.scrollY # 0
    /\ ScrollUnlocked

\* C8: the delay and the fade depend on the wall clock only: with fair
\* timers and no obligation on the display refresh, a scheduled transition
\* always reaches finalization, and every progress value the fade applies
\* is the clock's, whatever the number of executed render ticks.
C8_WallClockOnly ==
    /\ (timers.delay # {}) ~> (obs.doneAt # Blank)
    /\ [][ obs'.lastProgress # obs.lastProgress =>
             obs'.lastProgress = Min(now' - transitionStart, transitionDuration)
         ]_vars
    /\ [][ (obs.doneAt = Blank /\ obs'.doneAt # Blank) =>
             (now' >= FinalAt /\ obs'.doneAt = now') ]_vars

C8_Witness ==
    /\ obs.outcome = "running"
    /\ obs.doneAt # Blank
    /\ obs.passes = 0
    /\ rafPending

\* C9: after Done is reached on the GPU path, no texture, framebuffer,
\* program or vertex buffer created by the loader remains allocated.
C9_DoneReleasesGpu ==
    (obs.outcome = "running" /\ obs.doneAt # Blank) => gpu.live = {}

\* C10: for every initial scroll/overflow state of the host page, locking
\* on start followed by finalization restores body overflow, touch-action,
\* position, top, width, root overflow and the scroll offset exactly.
C10_ScrollRoundTrip ==
    obs.completeCalls >= 1 => \A f \in PageFields : page[f] = page0[f]

\* ------------------------------------------------------- render targets
\* the loader holds a full set of targets (a build or rebuild has completed)
TargetsBuilt == \A n \in TargetNames : gpu.textures[n] # 0 /\ gpu.framebuffers[n] # 0

\* width and height of the texture stored under a name
TargetSize(n) == << gpu.info[gpu.textures[n]].w, gpu.info[gpu.textures[n]].h >>

\* init() ended without an exception (so createFramebuffers() ran to its end)
BuildCompleted == obs.outcome \in { "running", "compileError" }

\* C11: each rebuild releases the three textures and three framebuffers of
\* the previous generation: afterwards none of them is allocated or stored
\* in the loader, the loader holds three textures and three framebuffers of
\* its own, all allocated, and (in runs where the build did not throw and
\* destroy() was not called) nothing else of that kind is allocated.
C11_RebuildReleasesPrevious ==
    /\ obs.prevGen \cap gpu.live = {}
    /\ obs.prevGen \cap Referenced(gpu) = {}
    /\ TargetsBuilt =>
          /\ Cardinality({ gpu.textures[n] : n \in TargetNames }) = 3
          /\ Cardinality({ gpu.framebuffers[n] : n \in TargetNames }) = 3
          /\ Cardinality(Referenced(gpu)) = 6
          /\ \A n \in TargetNames :
                /\ gpu.info[gpu.textures[n]].kind = "texture"
                /\ gpu.info[gpu.framebuffers[n]].kind = "framebuffer"
                /\ gpu.info[gpu.framebuffers[n]].tex = gpu.textures[n]
          /\ obs.destroyCalls = 0 => Referenced(gpu) \subseteq gpu.live
          /\ BuildCompleted => GpuTargetsLive \in { {}, Referenced(gpu) }

C11_Witness ==
    /\ obs.outcome = "running"
    /\ obs.resizes > 0
    /\ Cardinality(obs.prevGen) = 6
    /\ obs.passes > 0
    /\ GpuTargetsLive = Referenced(gpu)

\* C12: after a build or rebuild for a w x h surface the working and the
\* history target are w x h and the reduced target is
\* max(1, floor(w/3)) x max(1, floor(h/3)); 800 x 600 gives 266 x 200.
C12_TargetDimensions ==
    TargetsBuilt =>
        /\ TargetSize("bufferA") = << loader.width, loader.height >>
        /\ TargetSize("bufferAPrev") = << loader.width, loader.height >>
        /\ TargetSize("bufferB") = << Max(1, loader.width \div 3),
                                      Max(1, loader.height \div 3) >>
        /\ (loader.width = 800 /\ loader.height = 600) =>
              TargetSize("bufferB") = << 266, 200 >>

C12_Witness ==
    /\ TargetsBuilt
    /\ obs.resizes > 0
    /\ Cardinality(obs.prevGen) = 6
    /\ << loader.width, loader.height >> = << 800, 600 >>
    /\ TargetSize("bufferB") = << 266, 200 >>

\* C13: every render target has width >= 1 and height >= 1, whatever
\* viewport size the host reports, a width or height of 0 included.
C13_TargetsAtLeastOne ==
    TargetsBuilt =>
        \A n \in TargetNames : TargetSize(n)[1] >= 1 /\ TargetSize(n)[2] >= 1

\* ------------------------------------------------------------- the tick
\* a tick has been executed; Tick(i) is the record of its i-th pass and
\* Copy the record of its feedback copy
Ticked == obs.lastTick # << >>
Tick(i) == obs.lastTick[i]
Copy == obs.lastCopy[1]

\* every framebuffer the last tick drew on or copied between was complete
TickComplete == Tick(1).outComplete /\ Tick(2).outComplete /\ Copy.complete

\* C14: targets are blank at creation: right after a build or a rebuild
\* (no tick since) all three targets hold blank content, the first tick
\* after it reads a blank history, and no pass ever reads content produced
\* before the targets it binds were built.
C14_TargetsBlankAtCreation ==
    /\ (TargetsBuilt /\ loader.frameCount = obs.builtAtFrame) =>
          \A n \in TargetNames : gpu.info[gpu.textures[n]].content = Blank
    /\ Ticked =>
          /\ Copy.fresh => Tick(1).reads[1] = Blank
          /\ \A i \in 1..3 : \A j \in DOMAIN Tick(i).reads :
                \/ Tick(i).reads[j] = Blank
                \/ Tick(i).reads[j] >= Copy.builtAt

C14_Witness ==
    /\ Ticked
    /\ TickComplete
    /\ Cardinality(obs.prevGen) = 6
    /\ Copy.fresh
    /\ Copy.frame >= 1
    /\ Tick(1).reads[1] = Blank
    /\ Copy.history = Copy.frame

\* C15: every executed tick runs Pass A, Pass B, Pass Image and the
\* feedback copy once each in that order, all with the same frame index;
\* Pass B reads the working output Pass A wrote in this tick, Pass Image
\* reads that output and Pass B's, and the copy puts it in the history.
C15_TickOrder ==
    Ticked =>
        /\ << Tick(1).pass, Tick(2).pass, Tick(3).pass >> = Copy.after
        /\ Copy.after = << "bufferA", "bufferB", "image" >>
        /\ \A i \in 1..3 : Tick(i).frame = Copy.frame
        /\ Tick(2).reads = << Copy.frame >>
        /\ Tick(3).reads = << Copy.frame, Copy.frame >>
        /\ Copy.working = Copy.frame
        /\ Copy.history = Copy.frame

\* C16: in every executed tick the history Pass A reads holds what the
\* working target held at the end of the preceding tick, and blank content
\* in the first tick after a build or rebuild.
C16_TemporalFeedback ==
    Ticked =>
        Tick(1).reads[1] = (IF Copy.fresh THEN Blank ELSE Copy.workingBefore)

\* C17 as stated: with full capability, after the first tick the history
\* target is blank and the working target holds Pass A's output.
C17_HistoryBlankAfterFirstTick ==
    (Ticked /\ TickComplete /\ Copy.frame = 0) =>
        /\ Copy.history = Blank
        /\ Copy.working # Blank

\* C17: with full capability, in the first tick Pass A reads the blank
\* history and writes its (non-blank) output to the working target, and
\* the feedback copy that ends the tick leaves that output in the history.
C17_FirstTick ==
    (Ticked /\ TickComplete /\ Copy.frame = 0) =>
        /\ Tick(1).reads = << Blank >>
        /\ Copy.working = 0
        /\ Copy.working # Blank
        /\ Copy.history = Copy.working

C17_Witness ==
    /\ obs.outcome = "running"
    /\ obs.badAtInit = "none"
    /\ obs.resizes = 0
    /\ loader.frameCount = 1
    /\ Ticked
    /\ TickComplete
    /\ Copy.frame = 0
    /\ gpu.info[gpu.textures.bufferAPrev].content = 0
    /\ gpu.info[gpu.textures.bufferA].content = 0

\* C18: in every pass of every tick the viewport set for the pass equals
\* the size of the output bound for it: the canvas size for Pass A and Pass
\* Image, the reduced target's own size for Pass B.
C18_ViewportMatchesOutput ==
    Ticked =>
        /\ \A i \in 1..3 : Tick(i).viewport = Tick(i).outSize
        /\ Tick(1).viewport = Tick(1).surface
        /\ Tick(2).viewport = << Max(1, Tick(2).surface[1] \div 3),
                                 Max(1, Tick(2).surface[2] \div 3) >>
        /\ Tick(3).viewport = Tick(3).surface

C18_Witness ==
    /\ Ticked
    /\ obs.resizes > 0
    /\ Copy.fresh
    /\ Copy.frame >= 1
    /\ Tick(1).viewport = << 800, 600 >>
    /\ Tick(2).viewport = << 266, 200 >>
    /\ Tick(2).outSize = << 266, 200 >>

\* C19: under every interleaving of resize notifications and ticks, a tick
\* binds only allocated textures and framebuffers of the generation the
\* loader holds, and its targets have the size of the surface at the tick:
\* the first tick after a resize runs on the rebuilt, blank targets.
C19_TickBindsCurrentGeneration ==
    Ticked =>
        /\ \A i \in 1..3 : Tick(i).readsLive /\ Tick(i).outLive
        /\ Copy.live
        /\ { Tick(1).out, Tick(2).out, Copy.from, Copy.to } \cap obs.prevGen # {}
              => Copy.builtAt # obs.builtAtFrame
        /\ Tick(1).outSize = Tick(1).surface
        /\ Tick(2).outSize = << Max(1, Tick(1).surface[1] \div 3),
                                Max(1, Tick(1).surface[2] \div 3) >>
        /\ Copy.fresh => Tick(1).reads = << Blank >>

C19_Witness ==
    /\ Ticked
    /\ TickComplete
    /\ obs.resizes > 0
    /\ Cardinality(obs.prevGen) = 6
    /\ Copy.fresh
    /\ Copy.frame >= 1
    /\ Tick(1).surface = << 800, 600 >>
    /\ Tick(1).outSize = << 800, 600 >>
    /\ Tick(1).out \in Referenced(gpu)

\* C20: frameCount is 0 at the start, equals the number of executed ticks
\* (the n-th tick passes n - 1 to its three passes), and keeps the value it
\* had when isRunning became false.
C20_FrameIndex ==
    /\ obs.outcome = "new" => loader.frameCount = 0
    /\ obs.passes = 3 * loader.frameCount
    /\ Ticked => \A i \in 1..3 : Tick(i).frame = loader.frameCount - 1
    /\ ~Ticked => loader.frameCount = 0
    /\ ~loader.isRunning => loader.frameCount = obs.stoppedAtFrame

C20_Witness ==
    /\ loader.frameCount = 2
    /\ Ticked
    /\ Tick(3).frame = 1
    /\ ~loader.isRunning
    /\ ~rafPending
    /\ obs.stoppedAtFrame = 2

\* ------------------------------------------------------------ scheduler
\* C21: Stopped is terminal: once complete() or destroy() has stopped the
\* loop, isRunning stays false, and a refresh callback that fires afterwards
\* runs no pass and no copy, leaves frameCount alone and requests no further
\* callback (so at most one callback ever returns at once).
C21_StoppedIsTerminal ==
    /\ obs.stoppedAtFrame # Blank => ~loader.isRunning
    /\ (obs.completeCalls > 0 \/ obs.destroyCalls > 0) => ~loader.isRunning
    /\ ~loader.isRunning =>
          /\ loader.frameCount = obs.stoppedAtFrame
          /\ obs.passes = 3 * obs.stoppedAtFrame
          /\ Ticked => Copy.frame < obs.stoppedAtFrame
    /\ obs.rafRequests = (IF obs.outcome = "running"
                          THEN loader.frameCount + 1 ELSE 0)
    /\ obs.noopTicks <= 1
    /\ obs.noopTicks = 1 => (~loader.isRunning /\ ~rafPending)

C21_Witness ==
    /\ obs.outcome = "running"
    /\ ~loader.isRunning
    /\ obs.destroyCalls > 0
    /\ obs.doneAt # Blank
    /\ loader.frameCount >= 1
    /\ obs.noopTicks = 1
    /\ ~rafPending

\* ------------------------------------------------------------- the fade
\* progress values, in ms of fade: n stands for progress n / transitionDuration
ProgressDomain == 0 .. transitionDuration

\* the loader once the 500 ms timeout has shown the logo
LogoShown(l) == [ l EXCEPT !.logoOpacity = OpacityDen ]

\* C22: the surface opacity the fade writes is 1 - min(progress / 0.6, 1):
\* 1 at progress 0, 0 for every progress >= 0.6, never increasing with
\* progress.  Opacities are numerators over OpacityDen.
C22_SurfaceFadeLaw ==
    /\ obs.lastProgress # Blank =>
          loader.canvasOpacity = OpacityDen - Min(obs.lastProgress, OpacityDen)
    /\ obs.outcome = "new" =>
          \A n \in ProgressDomain :
              LET op == handleTransition(loader, n).canvasOpacity
              IN  /\ op = OpacityDen - Min(n, OpacityDen)
                  /\ n = 0 => op = OpacityDen
                  /\ 10 * n >= 6 * transitionDuration => op = 0
                  /\ n < transitionDuration =>
                        handleTransition(loader, n + 1).canvasOpacity <= op

C22_Witness ==
    /\ obs.lastProgress > 0
    /\ obs.lastProgress < OpacityDen
    /\ loader.canvasOpacity = OpacityDen - obs.lastProgress
    /\ loader.canvasOpacity < OpacityDen

\* C23: once the logo is shown, the overlay opacity during the fade is 1 for
\* every progress <= 0.4 and 1 - (progress - 0.4) / 0.6 above, 0 at progress
\* 1, never increasing with progress; the logo is shown before the fade
\* writes anything.
C23_OverlayFadeLaw ==
    /\ obs.lastProgress # Blank => timers.logo = {}
    /\ (obs.logoShown /\ obs.lastProgress # Blank) =>
          loader.logoOpacity =
              (IF obs.lastProgress <= LogoFadeFrom THEN OpacityDen
               ELSE OpacityDen - (obs.lastProgress - LogoFadeFrom))
    /\ obs.outcome = "new" =>
          \A n \in ProgressDomain :
              LET op == handleTransition(LogoShown(loader), n).logoOpacity
              IN  /\ 10 * n <= 4 * transitionDuration => op = OpacityDen
                  /\ 10 * n > 4 * transitionDuration =>
                        op = OpacityDen - (n - LogoFadeFrom)
                  /\ n = transitionDuration => op = 0
                  /\ n < transitionDuration =>
                        handleTransition(LogoShown(loader), n + 1).logoOpacity <= op

C23_Witness ==
    /\ obs.logoShown
    /\ obs.lastProgress > LogoFadeFrom
    /\ obs.lastProgress < transitionDuration
    /\ loader.logoOpacity = OpacityDen - (obs.lastProgress - LogoFadeFrom)
    /\ loader.logoOpacity > 0

\* C24: at progress 1 the overlay is in a clean terminal state: its
\* horizontal offset is 0, its blur is 0 and its opacity is 0.
C24_CleanTerminalState ==
    (obs.logoShown /\ obs.lastProgress = transitionDuration) =>
        /\ loader.logoOpacity = 0
        /\ loader.logoTransform.by = "fade"
        /\ glitchSign(loader.logoTransform.fade) = 0
        /\ loader.logoBlur = 0

\* C25: progress during Fading is the time since Fading was entered over
\* transitionDuration: no applied progress exceeds the time spent in Fading,
\* and finalization comes no earlier than transitionDuration after Fading
\* was entered, however long init() took or however late the timeout fired.
C25_ProgressFromFadeStart ==
    /\ obs.lastProgress # Blank =>
          obs.lastProgress <= now - obs.fadeStartedAt
    /\ obs.doneAt # Blank =>
          obs.doneAt - obs.fadeStartedAt >= transitionDuration

\* C26: Waiting lasts the fixed delay on both paths: startTransition() never
\* runs, the fade writes nothing and the transition never finalizes before
\* transitionStart ms have passed since the loader was constructed.
C26_WaitingHoldsForDelay ==
    /\ obs.fadeStartedAt # Blank => obs.fadeStartedAt >= transitionStart
    /\ obs.lastProgress # Blank =>
          (obs.fadeStartedAt # Blank /\ now >= transitionStart)
    /\ obs.doneAt # Blank => obs.doneAt >= transitionStart
    /\ \A d \in timers.fade : d >= transitionStart
    /\ now < transitionStart =>
          /\ obs.lastProgress = Blank
          /\ obs.fullApplied = 0
          /\ timers.fade = {}
          /\ loader.canvasOpacity \in { 0, OpacityDen }
          /\ loader.logoOpacity \in { 0, OpacityDen }
          /\ loader.logoBlur = 0
          /\ obs.extCalls = 0 => obs.completeCalls = 0

C26_Witness ==
    /\ obs.outcome = "compileError"
    /\ obs.fadeStartedAt = transitionStart
    /\ obs.lastProgress # Blank
    /\ obs.lastProgress < OpacityDen
    /\ obs.extCalls = 0
    /\ obs.completeCalls = 0

\* C27: applied progress is bounded and monotonic: every value the interval
\* applies lies in [0, 1] and is no smaller than the one before; the value 1
\* is applied at most once, complete() runs in the same callback, and the
\* interval is cleared, so nothing is applied afterwards.
C27_ProgressMonotonic ==
    /\ obs.progressOk
    /\ obs.lastProgress \in { Blank } \cup ProgressDomain
    /\ obs.fullApplied <= 1
    /\ obs.fullApplied = 1 <=> obs.doneAt # Blank
    /\ obs.fullApplied = 1 <=> obs.lastProgress = transitionDuration
    /\ obs.fullApplied = 1 =>
          /\ timers.fade = {}
          /\ timers.delay = {}
          /\ obs.completeCalls >= 1
          /\ ~loader.isRunning
    /\ (obs.lastProgress # Blank /\ obs.fullApplied = 0) => timers.fade # {}

C27_Witness ==
    /\ obs.fullApplied = 1
    /\ obs.lastProgress = transitionDuration
    /\ obs.fadeStartedAt = transitionStart
    /\ timers.slack = 0
    /\ timers.fade = {}
    /\ obs.doneAt > transitionStart + transitionDuration

\* C28: when a loader is stopped twice (destroy() twice in a row, or
\* destroy() and finalization), at most one run releases GPU resources and
\* no handle is passed to gl.delete* a second time.
C28_SingleReleasePass ==
    /\ obs.releasePasses <= 1

\* C29: once Fading has started the overlay's transform and opacity are
\* written by the fade timer only: no resize notification rewrites them, so
\* after a fade write above progress 0.4 the transform is the fade's.
C29_WriterPartition ==
    (obs.lastProgress # Blank /\ obs.lastProgress > LogoFadeFrom) =>
        loader.logoTransform.by = "fade"

\* ---------------------------------------------------------- entry point
\* canvases of loaders attached to the document, and render loops running
AttachedCanvases == { k \in 1 .. obs.loaders : CanvasOf(k) \in attached }
RunningLoops ==
    (IF loader.isRunning /\ rafPending THEN 1 ELSE 0) + obs.otherLoops

\* C30: whatever the calls of initShaderLoader(), at most one loader at a
\* time has a running render loop and presentation elements in the page.
C30_SinglePipeline ==
    /\ Cardinality(AttachedCanvases) <= 1
    /\ RunningLoops <= 1

\* ------------------------------------------------------------ compiler
\* the passes the loader holds a program for
HeldPrograms == { n \in PassNames : gpu.programs[n] # 0 }

\* C31: compilation is all-or-nothing: the loader holds a program for all
\* three passes or for none, every program it holds is a linked program
\* object, and after a compile error it holds none.
C31_CompileAllOrNothing ==
    /\ HeldPrograms \in { {}, PassNames }
    /\ \A n \in HeldPrograms :
          /\ gpu.info[gpu.programs[n]].kind = "program"
          /\ gpu.info[gpu.programs[n]].linked
    /\ obs.outcome = "compileError" => HeldPrograms = {}
    /\ obs.outcome = "running" => HeldPrograms = PassNames

C31_Witness ==
    /\ obs.outcome = "compileError"
    /\ HeldPrograms = {}
    /\ \E h \in gpu.live :
          gpu.info[h].kind = "program" /\ ~gpu.info[h].linked
    /\ \E h \in gpu.live :
          gpu.info[h].kind = "program" /\ gpu.info[h].linked

\* --------------------------------------------------------- finalization
\* C32: once complete() has run, on either path, the loop is stopped, the
\* loader's canvas and logo are detached, its resize, orientation-change,
\* touchmove and wheel listeners are removed and, when no other loader was
\* started, the body has lost the 'shader-loading' class; no resize
\* notification is handled by the loader afterwards.
C32_FinalizationDetaches ==
    /\ obs.completeCalls > 0 =>
          /\ ~loader.isRunning
          /\ attached \cap { "canvas", "logo" } = {}
          /\ listeners \cap (ResizeListeners \cup ScrollListeners) = {}
          /\ obs.loaders = 1 => ~page.loadingClass
    /\ obs.lateResizes = 0

C32_Witness ==
    /\ obs.completeCalls > 0
    /\ obs.outcome \in { "running", "compileError" }
    /\ obs.resizes > 0
    /\ viewport # << loader.width, loader.height >>
    /\ listeners = {}
    /\ attached = {}
    /\ ~page.loadingClass

\* C33: both completion signals fire at every finalization whatever the
\* callback does: each run of complete() dispatches 'shaderLoaderComplete',
\* also when the onComplete callback throws.
C33_EventDespiteThrow ==
    obs.evtCount = obs.completeCalls

\* ------------------------------------------------------------- resizing
\* C34: once startTransition() has run and until complete() runs, a resize
\* notification is ignored: a change of the viewport leaves the canvas
\* size, the render targets and the logo position as they were.
C34_ResizeIgnoredWhileFading ==
    [][ (obs.fadeStartedAt # Blank /\ obs.completeCalls = 0
           /\ viewport' # viewport)
        => (loader' = loader /\ gpu' = gpu) ]_vars

\* C35: after destroy() has run no later event allocates a GPU resource:
\* the loader holds no live GPU handle in any later state.
C35_NothingLiveAfterDestroy ==
    obs.destroyCalls > 0 => destroyHandles(gpu, loader) \cap gpu.live = {}

\* =================================================================== Tabs
\* the page with the loader idle and the widgets constructed
PageInit ==
    /\ LoaderIdle
    /\ tabs = tabsInit
    /\ tooltip = tooltipInit
    /\ carousel = carouselInit

\* delay of the setTimeout in switchTab() (ms), and the step of time
FadeOutDelay == 300
TabsStep == 100
TabKeys == { "ArrowLeft", "ArrowRight", "Home", "End", "Tab" }

\* Utils.$('.tab-panel.active'): the first active panel in document order,
\* 0 (null) when no panel is active
currentPanel(t) ==
    IF t.panelActive = {} THEN 0
    ELSE CHOOSE p \in t.panelActive : \A q \in t.panelActive : p <= q

\* switchTab(activeButton): the buttons are updated at once; the panels at
\* once when no other panel is active, otherwise in a timeout that keeps the
\* panel that was active when switchTab() ran
switchTab(t, b) ==
    LET cur == currentPanel(t)
        t1 == [ t EXCEPT !.active = { b },
                         !.switches = @ + 1,
                         !.hasty = @ \/ t.timeouts # << >> ]
    IN  IF cur # 0 /\ cur # b
        THEN [ t1 EXCEPT !.timeouts =
                 Append(@, [ cur |-> cur, target |-> b,
                             left |-> FadeOutDelay ]) ]
        ELSE [ t1 EXCEPT !.panelActive = @ \cup { b },
                         !.hidden = @ \ { b } ]

\* a click on a tab button
TabClick ==
    /\ tabs.switches < MaxSwitches
    /\ \E b \in TabNames : tabs' = switchTab(tabs, b)
    /\ UNCHANGED << loaderVars, tooltip, carousel >>

\* handleKeydown(event): the arrow keys, Home and End switch to another
\* button; event.target is the button that has the focus
KeyTarget(from, key) ==
    CASE key = "ArrowLeft" -> ((from - 1 - 1 + NumTabs) % NumTabs) + 1
      [] key = "ArrowRight" -> (from % NumTabs) + 1
      [] key = "Home" -> 1
      [] key = "End" -> NumTabs
      [] OTHER -> 0

handleKeydown ==
    /\ tabs.switches < MaxSwitches
    /\ \E from \in TabNames, key \in TabKeys :
         /\ KeyTarget(from, key) # 0
         /\ tabs' = switchTab(tabs, KeyTarget(from, key))
    /\ UNCHANGED << loaderVars, tooltip, carousel >>

\* the setTimeout callback of switchTab(): the captured panel is hidden and
\* the captured target shown, whatever happened in between
tabTimeout ==
    /\ tabs.timeouts # << >>
    /\ Head(tabs.timeouts).left = 0
    /\ LET cb == Head(tabs.timeouts)
       IN  tabs' = [ tabs EXCEPT
                       !.timeouts = Tail(@),
                       !.panelActive = (@ \ { cb.cur }) \cup { cb.target },
                       !.hidden = (@ \cup { cb.cur }) \ { cb.target } ]
    /\ UNCHANGED << loaderVars, tooltip, carousel >>

\* time passes while timeouts are pending and none is due
TabsElapse ==
    /\ tabs.timeouts # << >>
    /\ \A i \in 1 .. Len(tabs.timeouts) : tabs.timeouts[i].left > 0
    /\ tabs' = [ tabs EXCEPT !.timeouts =
                   [ i \in 1 .. Len(@) |->
                       [ @[i] EXCEPT !.left = @ - TabsStep ] ] ]
    /\ UNCHANGED << loaderVars, tooltip, carousel >>

TabsNext ==
    \/ TabClick
    \/ handleKeydown
    \/ tabTimeout
    \/ TabsElapse

TabsSpec == PageInit /\ [][TabsNext]_vars

\* C36: once every pending timeout has fired, exactly one panel is active
\* and visible, and it is the panel of the one button marked active,
\* however close together the switches were requested.
C36_OnePanelSettled ==
    tabs.timeouts = << >> =>
        /\ Cardinality(tabs.active) = 1
        /\ tabs.panelActive = tabs.active
        /\ TabNames \ tabs.hidden = tabs.active

\* ========================================================= DecryptTooltip
\* CONFIG.animation.decryptInterval (ms), and the step of time
decryptInterval == 40
TooltipStep == 20
\* the nav links with a data-tooltip attribute, and their tooltip texts;
\* "#" stands for a character drawn at random from this.chars
TooltipTargets == { 1, 2 }
TooltipText(target) ==
    IF target = 1 THEN << "G", "o" >> ELSE << "A", " ", "b" >>
PointerPositions == { 0, 1 }

\* what one run of the interval callback writes for iteration iter2 / 2
Scrambled(final, iter2) ==
    [ k \in 1 .. Len(final) |->
        IF final[k] = " " THEN " "
        ELSE IF 2 * (k - 1) < iter2 THEN final[k]
        ELSE "#" ]

Without(seq, i) == SubSeq(seq, 1, i - 1) \o SubSeq(seq, i + 1, Len(seq))

\* decrypt(finalText): with reduced motion the text is written at once,
\* otherwise a new interval is armed; no interval is ever cleared here
decrypt(tt, finalText) ==
    IF tt.reducedMotion THEN [ tt EXCEPT !.text = finalText ]
    ELSE [ tt EXCEPT !.intervals =
             Append(@, [ final |-> finalText, iter2 |-> 0,
                         left |-> decryptInterval, id |-> tt.shows ]) ]

\* show(target): mouseenter or focus on a nav link
show ==
    /\ tooltip.shows < MaxShows
    /\ \E target \in TooltipTargets :
         tooltip' = decrypt([ tooltip EXCEPT !.activeTarget = target,
                                             !.visible = TRUE,
                                             !.shows = @ + 1 ],
                            TooltipText(target))
    /\ UNCHANGED << loaderVars, tabs, carousel >>

\* hide(): mouseleave or blur
hide ==
    /\ tooltip.visible \/ tooltip.activeTarget # 0
    /\ tooltip' = [ tooltip EXCEPT !.visible = FALSE, !.activeTarget = 0 ]
    /\ UNCHANGED << loaderVars, tabs, carousel >>

\* move(event): the tooltip follows the pointer while a target is active
move ==
    /\ \E xy \in PointerPositions \ { tooltip.position } :
         tooltip' = IF tooltip.activeTarget = 0 THEN tooltip
                    ELSE [ tooltip EXCEPT !.position = xy ]
    /\ tooltip' # tooltip
    /\ UNCHANGED << loaderVars, tabs, carousel >>

\* the interval callback of decrypt(), for the i-th running interval: it
\* clears itself when no target is active, otherwise it writes the
\* scrambled text of its own closure, and the final text at the end
decryptTick(tt, i) ==
    LET cb == tt.intervals[i]
        done == cb.iter2 >= 2 * Len(cb.final)
    IN  IF tt.activeTarget = 0
        THEN [ tt EXCEPT !.intervals = Without(@, i) ]
        ELSE [ tt EXCEPT
                 !.text = IF done THEN cb.final
                          ELSE Scrambled(cb.final, cb.iter2),
                 !.staleWrite = @ \/ cb.id # tt.shows,
                 !.intervals =
                     IF done THEN Without(@, i)
                     ELSE [ @ EXCEPT ![i] =
                              [ cb EXCEPT !.iter2 = @ + 1,
                                          !.left = decryptInterval ] ] ]

\* the first due interval fires
decryptTimer ==
    /\ \E i \in 1 .. Len(tooltip.intervals) :
         /\ tooltip.intervals[i].left = 0
         /\ \A j \in 1 .. (i - 1) : tooltip.intervals[j].left > 0
         /\ tooltip' = decryptTick(tooltip, i)
    /\ UNCHANGED << loaderVars, tabs, carousel >>

\* time passes while intervals run and none is due
TooltipElapse ==
    /\ tooltip.intervals # << >>
    /\ \A i \in 1 .. Len(tooltip.intervals) : tooltip.intervals[i].left > 0
    /\ tooltip' = [ tooltip EXCEPT !.intervals =
                      [ i \in 1 .. Len(@) |->
                          [ @[i] EXCEPT !.left = @ - TooltipStep ] ] ]
    /\ UNCHANGED << loaderVars, tabs, carousel >>

TooltipInit ==
    /\ LoaderIdle
    /\ tabs = tabsInit
    /\ carousel = carouselInit
    /\ tooltip \in { [ tooltipInit EXCEPT !.reducedMotion = r ] :
                       r \in BOOLEAN }

TooltipNext ==
    \/ show
    \/ hide
    \/ move
    \/ decryptTimer
    \/ TooltipElapse

TooltipSpec == TooltipInit /\ [][TooltipNext]_vars

\* C37: whatever the interleaving of show(), hide() and the decrypt timer,
\* only the timer of the latest show() writes the tooltip, and once no
\* timer runs the tooltip shows the text of the active target.
C37_OneWriterRightText ==
    /\ ~tooltip.staleWrite
    /\ (tooltip.intervals = << >> /\ tooltip.activeTarget # 0) =>
          tooltip.text = TooltipText(tooltip.activeTarget)

\* ============================================================= Carousel3D
\* eighths of a degree in a full turn; this.cardCount; this.anglePerCard
FullTurn == 360 * 8
cardCount == 4
anglePerCard == FullTurn \div cardCount
CardIndexes == 0 .. (cardCount - 1)
\* CONFIG.animation.carouselTransitionDuration and the timeout of the queue
carouselTransitionDuration == 800
QueueDelay == 50
\* period of the display refresh in the carousel's runs (ms)
FramePeriod == 400

\* a % m of JavaScript: the sign of the result is the sign of a
JSRem(a, m) == IF a >= 0 THEN a % m ELSE 0 - ((0 - a) % m)
Abs(a) == IF a >= 0 THEN a ELSE 0 - a

\* CONFIG.animation.carouselSpeed * deltaTime: 0.015 degrees per ms
AutoStep(deltaTime) == (15 * 8 * deltaTime) \div 1000

\* Utils.easeOutCubic(elapsed / duration) as a numerator over EaseDen
EaseDen == (carouselTransitionDuration \div 100) * (carouselTransitionDuration \div 100) * (carouselTransitionDuration \div 100)
easeOutCubic(elapsed) ==
    LET r == (carouselTransitionDuration - elapsed) \div 100
    IN  EaseDen - r * r * r

\* distance of a card from the front, as updateActiveProject() and
\* getCurrentIndex() compute it
DistanceFromFront(index, rotation) ==
    LET cardAngle == JSRem(index * anglePerCard + rotation, FullTurn)
        normalizedAngle == IF cardAngle < 0 THEN cardAngle + FullTurn
                           ELSE cardAngle
    IN  IF Abs(normalizedAngle) > FullTurn \div 2
        THEN FullTurn - Abs(normalizedAngle)
        ELSE Abs(normalizedAngle)

\* getCurrentIndex(): the first card at the smallest distance
getCurrentIndex(rotation) ==
    CHOOSE i \in CardIndexes :
        /\ \A j \in CardIndexes :
              DistanceFromFront(i, rotation) <= DistanceFromFront(j, rotation)
        /\ \A j \in 0 .. (i - 1) :
              DistanceFromFront(j, rotation) > DistanceFromFront(i, rotation)

\* updateActiveProject(): setActiveIndex(closest card)
updateActiveProject(c) ==
    [ c EXCEPT !.activeIndex = getCurrentIndex(c.currentRotation) ]

\* the shortest rotation direction: the two while loops of smoothTransition()
RECURSIVE Shortest(_)
Shortest(diff) ==
    IF diff > FullTurn \div 2 THEN Shortest(diff - FullTurn)
    ELSE IF diff < 0 - (FullTurn \div 2) THEN Shortest(diff + FullTurn)
    ELSE diff

\* smoothTransition(targetAngle, onComplete): pauses the automatic rotation
\* and requests the first transition frame; index is what onComplete keeps
smoothTransition(c, targetAngle, index) ==
    [ c EXCEPT !.isPaused = TRUE,
               !.rafNext =
                   Append(@, [ kind |-> "transition",
                               startRotation |-> c.currentRotation,
                               diff |-> Shortest(targetAngle - c.currentRotation),
                               startTime |-> c.clock,
                               index |-> index ]) ]

\* rotateTo(index)
rotateTo(c, index) ==
    IF c.isTransitioning
    THEN [ c EXCEPT !.transitionQueue = index ]
    ELSE smoothTransition([ c EXCEPT !.isTransitioning = TRUE ],
                          0 - index * anglePerCard, index)

\* a request of the user, counted
Requested(c, index) ==
    [ rotateTo(c, index) EXCEPT !.requests = @ + 1, !.lastRequested = index ]

\* between two frames: no refresh callback is waiting to run
BetweenFrames == carousel.rafQueue = << >>

\* mouseenter on the track
mouseenter ==
    /\ BetweenFrames
    /\ ~carousel.hover
    /\ carousel' = [ carousel EXCEPT !.hover = TRUE, !.isPaused = TRUE ]
    /\ UNCHANGED << loaderVars, tabs, tooltip >>

\* mouseleave on the track
mouseleave ==
    /\ BetweenFrames
    /\ carousel.hover
    /\ carousel' = [ carousel EXCEPT !.hover = FALSE, !.isPaused = FALSE,
                                     !.lastTime = 0 ]
    /\ UNCHANGED << loaderVars, tabs, tooltip >>

\* a click (or Enter/Space) on a card, a project item or an indicator
selectCard ==
    /\ BetweenFrames
    /\ carousel.requests < MaxRequests
    /\ \E index \in CardIndexes : carousel' = Requested(carousel, index)
    /\ UNCHANGED << loaderVars, tabs, tooltip >>

\* rotatePrev(): the previous button or the left arrow key
rotatePrev ==
    /\ BetweenFrames
    /\ carousel.requests < MaxRequests
    /\ carousel' =
         Requested(carousel,
                   (getCurrentIndex(carousel.currentRotation) - 1 + cardCount)
                      % cardCount)
    /\ UNCHANGED << loaderVars, tabs, tooltip >>

\* rotateNext(): the next button or the right arrow key
rotateNext ==
    /\ BetweenFrames
    /\ carousel.requests < MaxRequests
    /\ carousel' =
         Requested(carousel,
                   (getCurrentIndex(carousel.currentRotation) + 1) % cardCount)
    /\ UNCHANGED << loaderVars, tabs, tooltip >>

\* the setTimeout callback of rotateTo(): the queued request is made
queuedTimeout ==
    /\ BetweenFrames
    /\ carousel.timeouts # << >>
    /\ carousel' = rotateTo([ carousel EXCEPT !.timeouts = Tail(@) ],
                            Head(carousel.timeouts))
    /\ UNCHANGED << loaderVars, tabs, tooltip >>

\* the display refreshes: the callbacks requested so far become due.  The
\* 50 ms timeouts are due before the next refresh.
NextFrame ==
    /\ BetweenFrames
    /\ QueueDelay < FramePeriod => carousel.timeouts = << >>
    /\ carousel.frames < MaxCarouselFrames
    /\ carousel' = [ carousel EXCEPT !.clock = @ + FramePeriod,
                                     !.frames = @ + 1,
                                     !.rafQueue = carousel.rafNext,
                                     !.rafNext = << >> ]
    /\ UNCHANGED << loaderVars, tabs, tooltip >>

\* animate(currentTime)
animateStep(c) ==
    LET last == IF c.lastTime = 0 THEN c.clock ELSE c.lastTime
        deltaTime == c.clock - last
        c1 == IF ~c.isPaused /\ ~c.reducedMotion
              THEN updateActiveProject(
                     [ c EXCEPT !.currentRotation =
                         JSRem(@ - AutoStep(deltaTime), FullTurn) ])
              ELSE c
    IN  [ c1 EXCEPT !.lastTime = c.clock,
                    !.movedInHover =
                        @ \/ (c.hover /\ c1.currentRotation # c.currentRotation),
                    !.rafQueue = Tail(@),
                    !.rafNext = Append(@, [ kind |-> "animate" ]) ]

animate ==
    /\ carousel.rafQueue # << >>
    /\ Head(carousel.rafQueue).kind = "animate"
    /\ carousel' = animateStep(carousel)
    /\ UNCHANGED << loaderVars, tabs, tooltip >>

\* the callback of rotateTo() that smoothTransition() runs at the end
onTransitionComplete(c, index) ==
    LET c1 == [ c EXCEPT !.activeIndex = index,
                         !.isTransitioning = FALSE,
                         !.completedIndex = index ]
    IN  IF c1.transitionQueue # 0 - 1
        THEN [ c1 EXCEPT !.timeouts = Append(@, c1.transitionQueue),
                         !.transitionQueue = 0 - 1 ]
        ELSE c1

\* the refresh callback `transition` of smoothTransition()
transitionStep(c, tr) ==
    LET elapsed == c.clock - tr.startTime
        progress == Min(elapsed, carouselTransitionDuration)
        c1 == updateActiveProject(
                [ c EXCEPT !.currentRotation =
                    tr.startRotation
                      + (tr.diff * easeOutCubic(progress)) \div EaseDen,
                           !.rafQueue = Tail(@) ])
    IN  IF progress < carouselTransitionDuration
        THEN [ c1 EXCEPT !.rafNext = Append(@, tr) ]
        ELSE onTransitionComplete(
               [ c1 EXCEPT !.isPaused = FALSE, !.lastTime = 0 ], tr.index)

transition ==
    /\ carousel.rafQueue # << >>
    /\ Head(carousel.rafQueue).kind = "transition"
    /\ carousel' = transitionStep(carousel, Head(carousel.rafQueue))
    /\ UNCHANGED << loaderVars, tabs, tooltip >>

CarouselInit ==
    /\ LoaderIdle
    /\ tabs = tabsInit
    /\ tooltip = tooltipInit
    /\ carousel \in { [ carouselInit EXCEPT !.reducedMotion = r ] :
                        r \in BOOLEAN }

CarouselNext ==
    \/ mouseenter
    \/ mouseleave
    \/ selectCard
    \/ rotatePrev
    \/ rotateNext
    \/ queuedTimeout
    \/ NextFrame
    \/ animate
    \/ transition

CarouselSpec == CarouselInit /\ [][CarouselNext]_vars

\* smooth transitions in flight: transition callbacks waiting for a refresh
InFlight ==
    Cardinality({ i \in 1 .. Len(carousel.rafQueue) :
                     carousel.rafQueue[i].kind = "transition" })
      + Cardinality({ i \in 1 .. Len(carousel.rafNext) :
                         carousel.rafNext[i].kind = "transition" })

\* nothing of a rotation request is left to run
Settled ==
    /\ InFlight = 0
    /\ carousel.timeouts = << >>
    /\ carousel.transitionQueue = 0 - 1
    /\ ~carousel.isTransitioning

\* C38: at most one smooth transition is in flight, and once every pending
\* callback of the requests has run, the index the last transition ended on
\* is the index requested last.
C38_LastRequestWins ==
    /\ InFlight <= 1
    /\ (Settled /\ carousel.requests > 0) =>
          carousel.completedIndex = carousel.lastRequested

\* C39: while the pointer is over the track, animate() never advances
\* currentRotation.
C39_PausedWhileHovering ==
    ~carousel.movedInHover

====
